---- MODULE Spec2Model ----
(***************************************************************************)
(* Grocify ML service (src/ml_service/main.py): the /generate-recipes      *)
(* handler, the recipe-output parser and the special-token cleaner.        *)
(*                                                                         *)
(* A Python str is a sequence of one-character strings, so that trimming,  *)
(* case mapping, splitting, replacing and slicing are computed character   *)
(* by character as the str methods compute them.                           *)
(***************************************************************************)
EXTENDS Integers, Sequences, FiniteSets, TLC

VARIABLES
    tokenOrder,     \* iteration order of the set SPECIAL_TOKENS in this process
    pc,             \* position of the generate_recipes coroutine
    ingredients,    \* req.ingredients of the request being handled
    prompt,         \* prompts the generator pipeline was called with, in order
    generated,      \* outcome of generate_recipe_text: kind, raw_outputs, error
    idx,            \* number of raw outputs the collection loop has consumed
    recipes_dict,   \* the handler's recipes_dict, in insertion order
    nextId,         \* stands for uuid4(): the next fresh identifier
    response,       \* what the handler answered: status, detail, recipes
    raw_text,       \* argument of a direct parse_recipe_output call
    fields,         \* the values the direct call's raw_text was assembled from
    parsed          \* result of the direct parse_recipe_output call

vars == <<tokenOrder, pc, ingredients, prompt, generated, idx, recipes_dict,
          nextId, response, raw_text, fields, parsed>>

(***************************************************************************)
(* Python str methods                                                      *)
(***************************************************************************)
LowerLetters ==
    <<"a","b","c","d","e","f","g","h","i","j","k","l","m",
      "n","o","p","q","r","s","t","u","v","w","x","y","z">>

UpperLetters ==
    <<"A","B","C","D","E","F","G","H","I","J","K","L","M",
      "N","O","P","Q","R","S","T","U","V","W","X","Y","Z">>

Whitespace == {" ", "\t", "\n", "\r"}

\* str.lower() and str.upper(), character by character
UpperIndex == [c \in {UpperLetters[k] : k \in 1..Len(UpperLetters)} |->
                  CHOOSE k \in 1..Len(UpperLetters) : UpperLetters[k] = c]
LowerIndex == [c \in {LowerLetters[k] : k \in 1..Len(LowerLetters)} |->
                  CHOOSE k \in 1..Len(LowerLetters) : LowerLetters[k] = c]

lower_char(c) == IF c \in DOMAIN UpperIndex THEN LowerLetters[UpperIndex[c]] ELSE c

upper_char(c) == IF c \in DOMAIN LowerIndex THEN UpperLetters[LowerIndex[c]] ELSE c

\* s.lower()
lower(s) == [k \in 1..Len(s) |-> lower_char(s[k])]

\* s.capitalize(): first character upper-cased, the rest lower-cased
capitalize(s) ==
    [k \in 1..Len(s) |-> IF k = 1 THEN upper_char(s[k]) ELSE lower_char(s[k])]

\* s.strip(): from the first to the last character that is not whitespace
strip(s) ==
    LET kept == {k \in 1..Len(s) : s[k] \notin Whitespace}
    IN  IF kept = {} THEN <<>>
        ELSE LET first == CHOOSE k \in kept : \A j \in 1..(k - 1) : s[j] \in Whitespace
                 last == CHOOSE k \in kept : \A j \in (k + 1)..Len(s) : s[j] \in Whitespace
             IN  SubSeq(s, first, last)

\* s[:n]
slice_to(s, n) == IF Len(s) <= n THEN s ELSE SubSeq(s, 1, n)

\* s.startswith(p)
startswith(s, p) ==
    /\ Len(p) <= Len(s)
    /\ \A k \in 1..Len(p) : s[k] = p[k]

\* whether p occurs in s at position i
occurs_at(s, p, i) ==
    /\ i + Len(p) - 1 <= Len(s)
    /\ \A k \in 1..Len(p) : s[i + k - 1] = p[k]

\* s.find(p, i): the first position at or after i where p occurs, or 0
find_from(s, p, i) ==
    LET hits == {k \in i..(Len(s) - Len(p) + 1) : occurs_at(s, p, k)}
    IN  IF hits = {} THEN 0 ELSE CHOOSE k \in hits : \A j \in hits : k <= j

RECURSIVE replace_from(_, _, _, _)
replace_from(s, old, new, i) ==
    LET at == find_from(s, old, i)
    IN  IF at = 0 THEN SubSeq(s, i, Len(s))
        ELSE SubSeq(s, i, at - 1) \o new \o replace_from(s, old, new, at + Len(old))

\* s.replace(old, new): every non-overlapping occurrence, left to right, one pass
replace(s, old, new) == replace_from(s, old, new, 1)

RECURSIVE split_from(_, _, _)
split_from(s, sep, i) ==
    LET at == find_from(s, sep, i)
    IN  IF at = 0 THEN <<SubSeq(s, i, Len(s))>>
        ELSE <<SubSeq(s, i, at - 1)>> \o split_from(s, sep, at + Len(sep))

\* s.split(sep)
split(s, sep) == split_from(s, sep, 1)

\* s.split(sep, 1)[1]: what follows the first occurrence of sep
split_once_rest(s, sep) == SubSeq(s, find_from(s, sep, 1) + Len(sep), Len(s))

RECURSIVE join_from(_, _, _)
join_from(sep, parts, i) ==
    IF i > Len(parts) THEN <<>>
    ELSE IF i = Len(parts) THEN parts[i]
    ELSE parts[i] \o sep \o join_from(sep, parts, i + 1)

\* sep.join(parts)
join(sep, parts) == join_from(sep, parts, 1)

Digits == <<"0","1","2","3","4","5","6","7","8","9">>

RECURSIVE str_of_int(_)
\* str(n) for n >= 0
str_of_int(n) ==
    IF n < 10 THEN <<Digits[n + 1]>>
    ELSE str_of_int(n \div 10) \o <<Digits[(n % 10) + 1]>>

\* [f(x) for x in xs if keep(x)] needs the filtered list first
RECURSIVE select_nonblank(_, _)
select_nonblank(xs, i) ==
    IF i > Len(xs) THEN <<>>
    ELSE IF strip(xs[i]) # <<>>
         THEN <<xs[i]>> \o select_nonblank(xs, i + 1)
         ELSE select_nonblank(xs, i + 1)

(***************************************************************************)
(* Literals of main.py                                                     *)
(***************************************************************************)
SECTION_MARK == <<"<","s","e","c","t","i","o","n",">">>
SEP_MARK == <<"<","s","e","p",">">>
NEWLINE == <<"\n">>
DASHES == <<"-","-">>
COLON == <<":">>
TITLE_PREFIX == <<"t","i","t","l","e",":">>
INGREDIENTS_PREFIX == <<"i","n","g","r","e","d","i","e","n","t","s",":">>
DIRECTIONS_PREFIX == <<"d","i","r","e","c","t","i","o","n","s",":">>
UNTITLED == <<"U","n","t","i","t","l","e","d"," ","R","e","c","i","p","e">>
INGREDIENTS_LABEL == <<"I","n","g","r","e","d","i","e","n","t","s",":"," ">>
COMMA_SPACE == <<","," ">>
DOT_SPACE == <<"."," ">>
ITEMS_PREFIX == <<"i","t","e","m","s",":"," ">>
PAD_TOKEN == <<"<","p","a","d",">">>
EOS_TOKEN == <<"<","/","s",">">>

\* tokenizer.all_special_tokens, as the comment of the removal loop names them
SPECIAL_TOKENS == {PAD_TOKEN, EOS_TOKEN}

TITLE_MAX == 80
DESC_MAX == 200
INGREDIENTS_SHOWN == 6
MAX_RECIPES == 3

\* the orders in which "for tok in SPECIAL_TOKENS" can visit the set
TokenOrders ==
    {o \in [1..Cardinality(SPECIAL_TOKENS) -> SPECIAL_TOKENS] :
        \A a, b \in DOMAIN o : a # b => o[a] # o[b]}

(***************************************************************************)
(* _clean_special_tokens                                                   *)
(***************************************************************************)
RECURSIVE remove_tokens(_, _, _)
\* for tok in SPECIAL_TOKENS: text = text.replace(tok, ""), visiting in `order'
remove_tokens(text, order, i) ==
    IF i > Len(order) THEN text
    ELSE remove_tokens(replace(text, order[i], <<>>), order, i + 1)

clean_in_order(text, order) ==
    LET sectioned == replace(text, SECTION_MARK, NEWLINE)
        separated == replace(sectioned, SEP_MARK, DASHES)
    IN  strip(remove_tokens(separated, order, 1))

_clean_special_tokens(text) == clean_in_order(text, tokenOrder)

(***************************************************************************)
(* parse_recipe_output                                                     *)
(***************************************************************************)
\* [l.strip() for l in cleaned.split("\n") if l.strip()]
stripped_lines(cleaned) ==
    LET kept == select_nonblank(split(cleaned, NEWLINE), 1)
    IN  [k \in 1..Len(kept) |-> strip(kept[k])]

\* scan_line with a scan that keeps the first match of each prefix
scan_line_first_wins(acc, line) ==
    LET low == lower(line)
    IN  IF startswith(low, TITLE_PREFIX)
        THEN LET rest == strip(split_once_rest(line, COLON))
             IN  IF acc.title # UNTITLED THEN acc
                 ELSE [acc EXCEPT !.title = IF rest = <<>> THEN UNTITLED ELSE rest]
        ELSE IF startswith(low, INGREDIENTS_PREFIX)
        THEN IF acc.ingredients_line # <<>> THEN acc
             ELSE [acc EXCEPT !.ingredients_line = strip(split_once_rest(line, COLON))]
        ELSE IF startswith(low, DIRECTIONS_PREFIX)
        THEN IF acc.directions_line # <<>> THEN acc
             ELSE [acc EXCEPT !.directions_line = strip(split_once_rest(line, COLON))]
        ELSE acc

\* the body of "for line in lines": acc holds title, ingredients_line, directions_line
scan_line(acc, line) ==
    LET low == lower(line)
    IN  IF startswith(low, TITLE_PREFIX)
        THEN LET rest == strip(split_once_rest(line, COLON))
             IN  [acc EXCEPT !.title = IF rest = <<>> THEN UNTITLED ELSE rest]
        ELSE IF startswith(low, INGREDIENTS_PREFIX)
        THEN [acc EXCEPT !.ingredients_line = strip(split_once_rest(line, COLON))]
        ELSE IF startswith(low, DIRECTIONS_PREFIX)
        THEN [acc EXCEPT !.directions_line = strip(split_once_rest(line, COLON))]
        ELSE acc

RECURSIVE scan_lines(_, _, _)
scan_lines(lines, i, acc) ==
    IF i > Len(lines) THEN acc
    ELSE scan_lines(lines, i + 1, scan_line(acc, lines[i]))

\* [s.strip().capitalize() for s in line.split("--") if s.strip()]
segments(line) ==
    LET kept == select_nonblank(split(line, DASHES), 1)
    IN  [k \in 1..Len(kept) |-> capitalize(strip(kept[k]))]

\* fallback_title without the fallback to the first line
fallback_title_kept(title, lines) == title

\* "if title == 'Untitled Recipe': title = lines[0][:80]"
fallback_title(title, lines) ==
    IF title = UNTITLED THEN slice_to(lines[1], TITLE_MAX) ELSE title

build_short_desc(ingredients_line) ==
    LET ing_list == segments(ingredients_line)
    IN  IF ingredients_line # <<>> /\ ing_list # <<>>
        THEN INGREDIENTS_LABEL \o join(COMMA_SPACE, slice_to(ing_list, INGREDIENTS_SHOWN))
        ELSE <<>>

\* numbered_step numbering from 0
numbered_step_from_zero(i, step) == str_of_int(i) \o DOT_SPACE \o step

\* f"{i+1}. {step}" for the enumerate index i (from 0)
numbered_step(i, step) == str_of_int(i + 1) \o DOT_SPACE \o step

build_instructions(directions_line, cleaned) ==
    LET steps == segments(directions_line)
    IN  IF directions_line # <<>> /\ steps # <<>>
        THEN join(NEWLINE, [k \in 1..Len(steps) |-> numbered_step(k - 1, steps[k])])
        ELSE cleaned

\* result_triple without the two slices
result_triple_uncut(title, short_desc, instructions) ==
    <<title, short_desc, instructions>>

\* "return (title[:80], short_desc[:200], instructions)"
result_triple(title, short_desc, instructions) ==
    <<slice_to(title, TITLE_MAX), slice_to(short_desc, DESC_MAX), instructions>>

parse_recipe_output(raw) ==
    LET cleaned == _clean_special_tokens(raw)
        lines == stripped_lines(cleaned)
    IN  IF lines = <<>> THEN <<UNTITLED, <<>>, cleaned>>
        ELSE LET found == scan_lines(lines, 1,
                              [title |-> UNTITLED, ingredients_line |-> <<>>,
                               directions_line |-> <<>>])
             IN  result_triple(fallback_title(found.title, lines),
                               build_short_desc(found.ingredients_line),
                               build_instructions(found.directions_line, cleaned))

(***************************************************************************)
(* Raw texts the parser is called on directly                              *)
(***************************************************************************)
MaxLines == 2

Rep(c, n) == <<>> \o [k \in 1..n |-> c]

SPACE == <<" ">>
SOUP == <<"S","o","u","p">>

\* values of X in "title: X"
TitleValues ==
    { SOUP, <<>>, UNTITLED, <<" ","T","o","m","a","t","o"," ","S","o","u","p"," ">>, <<"S","o","<","p","a","d",">","u","p">>, Rep("x", TITLE_MAX + 1) }

\* values of A and B in "ingredients: A -- B"
ItemValues == { <<"a">>, <<"o","L","i","v","e"," ","O","i","l">>, <<>>, Rep("y", DESC_MAX \div 2) }

\* values of step1 and step2 in "directions: step1 -- step2"
StepValues == { <<"b","o","i","l">>, <<"m","I","x"," ","W","e","l","l">>, <<>> }

\* "title: X", "ingredients: A -- B", "directions: step1 -- step2", one per line
three_lines(X, A, B, s1, s2) ==
    TITLE_PREFIX \o SPACE \o X \o NEWLINE
        \o INGREDIENTS_PREFIX \o SPACE \o A \o SPACE \o DASHES \o SPACE \o B \o NEWLINE
        \o DIRECTIONS_PREFIX \o SPACE \o s1 \o SPACE \o DASHES \o SPACE \o s2

ThreeLineInputs ==
    { [raw |-> three_lines(f[1], f[2], f[3], f[4], f[5]), fields |-> f] :
        f \in TitleValues \X ItemValues \X ItemValues \X StepValues \X StepValues }

\* lines a generated text is assembled from
LineSet ==
    { <<"t","i","t","l","e",":"," ","S","o","u","p">>,
      <<"T","I","T","L","E",":","s","t","e","w">>,
      <<"t","i","t","l","e",":">>,
      <<"i","n","g","r","e","d","i","e","n","t","s",":"," ","a"," ","-","-"," ","b">>,
      <<"I","n","g","r","e","d","i","e","n","t","s",":"," ","c","<","s","e","p",">","d","<","s","e","p",">","e","<","s","e","p",">","f","<","s","e","p",">","g","<","s","e","p",">","h","<","s","e","p",">","i">>,
      <<"d","i","r","e","c","t","i","o","n","s",":"," ","b","o","i","l"," ","-","-"," ","s","e","r","v","e">>,
      <<"D","i","r","e","c","t","i","o","n","s",":"," ","m","i","x">>,
      <<"F","r","e","s","h"," ","p","i","e">>,
      <<" "," ">>,
      <<"<","p","<","/","s",">","a","d",">","n","o","t","e">>,
      <<"<","/","s",">","t","i","t","l","e",":"," ","P","i","e","<","s","e","c","t","i","o","n",">","b","a","k","e">>,
      <<"l","o","n","g"," ">> \o Rep("z", TITLE_MAX) }

LineLists == UNION { [1..n -> LineSet] : n \in 0..MaxLines }

LineInputs == { [raw |-> join(NEWLINE, ls), fields |-> <<>>] : ls \in LineLists }

ParseInputs == ThreeLineInputs \cup LineInputs

NotCalled == [op |-> "none"]

(***************************************************************************)
(* Requests and generator outcomes                                         *)
(***************************************************************************)
MaxOutputs == 4

TOMATO == <<"T","o","m","a","t","o">>
BLANK == <<" "," ">>
CHEESE == <<"c","h","e","e","s","e">>

\* bodies of POST /generate-recipes: the ingredients list
IngredientRequests ==
    { <<>>, <<BLANK>>, << <<>> >>, <<BLANK, <<>>, <<" ","\t">>>>,
      <<TOMATO, BLANK, CHEESE>>, << <<" ","B","l","u","e"," ","C","h","e","e","s","e"," ">> >>, << <<"E","G","G">>, <<>>, TOMATO >> }

\* texts the pipeline can generate (generated_text, before .strip())
RAW_SOUP == <<"t","i","t","l","e",":"," ","S","o","u","p","\n","d","i","r","e","c","t","i","o","n","s",":"," ","b","o","i","l"," ">>
RAW_SOUP_LOWER == <<"t","i","t","l","e",":"," ","s","o","u","p","\n","d","i","r","e","c","t","i","o","n","s",":"," ","s","i","m","m","e","r">>
RAW_STEW == <<" ","t","i","t","l","e",":"," ","S","t","e","w">>
RAW_PIE == <<"P","i","e">>
RAW_CAKE == <<"t","i","t","l","e",":"," ","C","a","k","e","<","s","e","c","t","i","o","n",">","i","n","g","r","e","d","i","e","n","t","s",":"," ","f","l","o","u","r","<","s","e","p",">","e","g","g","<","/","s",">">>

RawSamples == { RAW_SOUP, RAW_SOUP_LOWER, RAW_STEW, RAW_PIE, RAW_CAKE }

RawOutputLists == UNION { [1..n -> RawSamples] : n \in 0..MaxOutputs }

\* what an exception raised inside the try block carries
InternalErrors == { "RuntimeError: CUDA out of memory", "ValueError: bad generation config" }

NO_INGREDIENTS == "No ingredients provided. Please provide at least one ingredient."
NO_VALID_INGREDIENTS == "No valid ingredients found after cleaning."
GENERIC_FAILURE == "Recipe generation failed. Please try again later."

NoResponse == [status |-> 0, detail |-> "", recipes |-> <<>>]
NotGenerated == [kind |-> "none", raw_outputs |-> <<>>, error |-> ""]

(***************************************************************************)
(* generate_recipes                                                        *)
(***************************************************************************)
\* clean_ingredient without .lower()
clean_ingredient_cased(ing) == strip(ing)

\* "ing.strip().lower()" of the list comprehension
clean_ingredient(ing) == lower(strip(ing))

\* [ing.strip().lower() for ing in req.ingredients if ing and ing.strip()]
cleaned_ingredients(ings) ==
    LET kept == select_nonblank(ings, 1)
    IN  [k \in 1..Len(kept) |-> clean_ingredient(kept[k])]

\* ", ".join(cleaned)
items_string(cleaned) == join(COMMA_SPACE, cleaned)

\* generate_recipe_text: prompt = "items: " + items_str
build_prompt(items_str) == ITEMS_PREFIX \o items_str

HTTPException(status, detail) ==
    [type |-> "HTTPException", status |-> status, detail |-> detail, message |-> detail]

UnexpectedException(message) ==
    [type |-> "Exception", status |-> 0, detail |-> "", message |-> message]

\* unexpected_error_response passing the exception's text on
unexpected_error_leaks(e) ==
    [status |-> 500, detail |-> e.message, recipes |-> <<>>]

\* "except Exception": the answer built from an unexpected exception e
unexpected_error_response(e) ==
    [status |-> 500, detail |-> GENERIC_FAILURE, recipes |-> <<>>]

\* handle_exception without the "except HTTPException: raise" clause
handle_exception_all_500(e) == unexpected_error_response(e)

\* the two except clauses of generate_recipes, for an exception raised in the try block
handle_exception(e) ==
    IF e.type = "HTTPException"
    THEN [status |-> e.status, detail |-> e.detail, recipes |-> <<>>]
    ELSE unexpected_error_response(e)

\* recipe_key without .lower()
recipe_key_exact(title) == title

\* key = title.lower()
recipe_key(title) == lower(title)

\* key in recipes_dict
key_in(dict, key) == \E k \in 1..Len(dict) : dict[k].key = key

\* collection_full with > in place of >=
collection_full_late(dict) == Len(dict) > MAX_RECIPES

\* "if len(recipes_dict) >= 3: break"
collection_full(dict) == Len(dict) >= MAX_RECIPES

Init ==
    /\ tokenOrder \in TokenOrders
    /\ pc = "idle"
    /\ ingredients = <<>>
    /\ prompt = <<>>
    /\ generated = NotGenerated
    /\ idx = 0
    /\ recipes_dict = <<>>
    /\ nextId = 1
    /\ response = NoResponse
    /\ raw_text = <<>>
    /\ fields = <<>>
    /\ parsed = NotCalled

\* the handler up to "await asyncio.to_thread(generate_recipe_text, ...)":
\* validation, normalisation, and the generator call with its prompt
Receive ==
    /\ pc = "idle"
    /\ \E ings \in IngredientRequests :
        /\ ingredients' = ings
        /\ LET cleaned == cleaned_ingredients(ings)
           IN  IF ings = <<>>
               THEN /\ response' = handle_exception(HTTPException(400, NO_INGREDIENTS))
                    /\ pc' = "done"
                    /\ prompt' = prompt
               ELSE IF cleaned = <<>>
               THEN /\ response' = handle_exception(HTTPException(400, NO_VALID_INGREDIENTS))
                    /\ pc' = "done"
                    /\ prompt' = prompt
               ELSE /\ prompt' = Append(prompt, build_prompt(items_string(cleaned)))
                    /\ pc' = "awaiting"
                    /\ response' = response
        /\ UNCHANGED <<tokenOrder, generated, idx, recipes_dict, nextId,
                       raw_text, fields, parsed>>

\* generate_recipe_text returns [o.get("generated_text", "").strip() for o in outputs]
GeneratorReturns ==
    /\ pc = "awaiting"
    /\ \E outs \in RawOutputLists :
        /\ generated' = [kind |-> "returned",
                         raw_outputs |-> [k \in 1..Len(outs) |-> strip(outs[k])],
                         error |-> ""]
        /\ pc' = IF outs = <<>> THEN "respond" ELSE "collecting"
        /\ UNCHANGED <<tokenOrder, ingredients, prompt, idx, recipes_dict, nextId,
                       response, raw_text, fields, parsed>>

\* the pipeline raises: generate_recipe_text logs and re-raises, the handler catches
GeneratorRaises ==
    /\ pc = "awaiting"
    /\ \E err \in InternalErrors :
        /\ generated' = [kind |-> "raised", raw_outputs |-> <<>>, error |-> err]
        /\ response' = handle_exception(UnexpectedException(err))
        /\ pc' = "done"
        /\ UNCHANGED <<tokenOrder, ingredients, prompt, idx, recipes_dict, nextId,
                       raw_text, fields, parsed>>

\* the body of "for raw in raw_outputs": the dict after it, and whether it breaks
loop_body(dict, raw, id) ==
    LET triple == parse_recipe_output(raw)
        key == recipe_key(triple[1])
        entry == [key |-> key, id |-> id, title |-> triple[1],
                  shortDescription |-> triple[2], instructions |-> triple[3]]
    IN  IF key_in(dict, key)
        THEN [recipes_dict |-> dict, stored |-> FALSE, break |-> FALSE]
        ELSE [recipes_dict |-> Append(dict, entry), stored |-> TRUE,
              break |-> collection_full(Append(dict, entry))]

\* one iteration of "for raw in raw_outputs"
CollectStep ==
    /\ pc = "collecting"
    /\ idx < Len(generated.raw_outputs)
    /\ \E after \in {loop_body(recipes_dict, generated.raw_outputs[idx + 1], nextId)} :
        /\ recipes_dict' = after.recipes_dict
        /\ nextId' = IF after.stored THEN nextId + 1 ELSE nextId
        /\ idx' = idx + 1
        /\ pc' = IF after.break \/ idx + 1 = Len(generated.raw_outputs)
                 THEN "respond" ELSE "collecting"
    /\ UNCHANGED <<tokenOrder, ingredients, prompt, generated, response,
                   raw_text, fields, parsed>>

\* recipes_list = list(recipes_dict.values()); return RecipeResponse(recipes=recipes_list)
Respond ==
    /\ pc = "respond"
    /\ response' = [status |-> 200, detail |-> "",
                    recipes |-> [k \in 1..Len(recipes_dict) |->
                        [id |-> recipes_dict[k].id, title |-> recipes_dict[k].title,
                         shortDescription |-> recipes_dict[k].shortDescription,
                         instructions |-> recipes_dict[k].instructions]]]
    /\ pc' = "done"
    /\ UNCHANGED <<tokenOrder, ingredients, prompt, generated, idx, recipes_dict,
                   nextId, raw_text, fields, parsed>>

\* any other exception raised while parsing, collecting or building the response
CollectRaises ==
    /\ pc \in {"collecting", "respond"}
    /\ \E err \in InternalErrors :
        /\ generated' = [generated EXCEPT !.error = err]
        /\ response' = handle_exception(UnexpectedException(err))
        /\ pc' = "done"
        /\ UNCHANGED <<tokenOrder, ingredients, prompt, idx, recipes_dict, nextId,
                       raw_text, fields, parsed>>

Next ==
    \/ Receive
    \/ GeneratorReturns
    \/ GeneratorRaises
    \/ CollectStep
    \/ Respond
    \/ CollectRaises

Spec == Init /\ [][Next]_vars

(***************************************************************************)
(* Direct calls of the parser and the cleaner                              *)
(***************************************************************************)
InitParse ==
    /\ tokenOrder \in TokenOrders
    /\ pc = "idle"
    /\ ingredients = <<>>
    /\ prompt = <<>>
    /\ generated = NotGenerated
    /\ idx = 0
    /\ recipes_dict = <<>>
    /\ nextId = 1
    /\ response = NoResponse
    /\ \E input \in ParseInputs :
          /\ raw_text = input.raw
          /\ fields = input.fields
    /\ parsed = NotCalled

CallParse ==
    /\ parsed = NotCalled
    /\ parsed' = [op |-> "parse", result |-> parse_recipe_output(raw_text)]
    /\ UNCHANGED <<tokenOrder, pc, ingredients, prompt, generated, idx,
                   recipes_dict, nextId, response, raw_text, fields>>

CallClean ==
    /\ parsed = NotCalled
    /\ parsed' = [op |-> "clean", result |-> _clean_special_tokens(raw_text)]
    /\ UNCHANGED <<tokenOrder, pc, ingredients, prompt, generated, idx,
                   recipes_dict, nextId, response, raw_text, fields>>

NextParse == CallParse \/ CallClean

SpecParse == InitParse /\ [][NextParse]_vars

(***************************************************************************)
(* Properties of parse_recipe_output and _clean_special_tokens             *)
(* (checked under SpecParse)                                               *)
(***************************************************************************)
ParseDone == parsed.op = "parse"

\* whether text v contains text p
Contains(v, p) == \E k \in 1..Len(v) : occurs_at(v, p, k)

\* whether a line starts, case-insensitively, with a prefix
HasPrefix(line, prefix) ==
    /\ Len(line) >= Len(prefix)
    /\ \A k \in 1..Len(prefix) : lower_char(line[k]) = prefix[k]

IsMarked(line) ==
    \/ HasPrefix(line, TITLE_PREFIX)
    \/ HasPrefix(line, INGREDIENTS_PREFIX)
    \/ HasPrefix(line, DIRECTIONS_PREFIX)

\* C1: for every raw text the parser returns a title of at most 80 characters
\* and a short description of at most 200 characters.
C1_LengthCaps ==
    ParseDone => /\ Len(parsed.result[1]) <= 80
                 /\ Len(parsed.result[2]) <= 200

\* a title value of more than 80 characters and ingredients of more than 200
\* characters went in, and exactly 80 and 200 characters came out
C1_Witness ==
    /\ ParseDone
    /\ fields # <<>>
    /\ Len(fields[1]) > 80
    /\ Len(INGREDIENTS_LABEL) + Len(fields[2]) + Len(COMMA_SPACE) + Len(fields[3]) > 200
    /\ Len(parsed.result[1]) = 80
    /\ Len(parsed.result[2]) = 200

\* the trimmed value with its first character upper-cased and the rest lower-cased
Capitalized(v) ==
    LET t == strip(v)
    IN  [k \in 1..Len(t) |-> IF k = 1 THEN upper_char(t[k]) ELSE lower_char(t[k])]

\* the value with only its first character upper-cased, as "step1" reads "Step1"
FirstUpper(v) == [k \in 1..Len(v) |-> IF k = 1 THEN upper_char(v[k]) ELSE v[k]]

\* a value that survives cleaning and splitting unchanged: no "--", no line
\* break, no <section> or <sep> marker, no special token
IsPlain(v) ==
    /\ ~Contains(v, DASHES)
    /\ ~Contains(v, NEWLINE)
    /\ ~Contains(v, SECTION_MARK)
    /\ ~Contains(v, SEP_MARK)
    /\ \A tok \in SPECIAL_TOKENS : ~Contains(v, tok)

C6_Covered ==
    /\ fields # <<>>
    /\ \A k \in 1..5 : IsPlain(fields[k]) /\ strip(fields[k]) # <<>>
    /\ strip(fields[1]) # UNTITLED

C7_NoMarkers ==
    ParseDone =>
        LET cleaned == _clean_special_tokens(raw_text)
            lines == stripped_lines(cleaned)
        IN  (lines # <<>> /\ \A k \in 1..Len(lines) : ~IsMarked(lines[k])) =>
                /\ parsed.result[1] =
                       (IF Len(lines[1]) > 80 THEN SubSeq(lines[1], 1, 80) ELSE lines[1])
                /\ parsed.result[2] = <<>>
                /\ parsed.result[3] = cleaned

\* two unmarked lines, the first longer than 80 characters
C7_Witness ==
    /\ ParseDone
    /\ LET cleaned == _clean_special_tokens(raw_text)
           lines == stripped_lines(cleaned)
       IN  /\ Len(lines) = 2
           /\ \A k \in 1..Len(lines) : ~IsMarked(lines[k])
           /\ Len(lines[1]) > 80
           /\ Len(parsed.result[1]) = 80
           /\ parsed.result[3] = cleaned

\* the lines that start with a prefix, by position
LinesWith(lines, prefix) == {k \in 1..Len(lines) : HasPrefix(lines[k], prefix)}

\* what follows the prefix on the last line that starts with it, trimmed
LastRemainder(lines, prefix) ==
    LET with == LinesWith(lines, prefix)
    IN  IF with = {} THEN <<>>
        ELSE LET last == CHOOSE k \in with : \A j \in with : j <= k
             IN  strip(SubSeq(lines[last], Len(prefix) + 1, Len(lines[last])))

\* C9: when a prefix occurs on several lines of the cleaned text, each field is
\* built from what follows the prefix on the last line that starts with it.
C9_LastOccurrenceWins ==
    ParseDone =>
        LET cleaned == _clean_special_tokens(raw_text)
            lines == stripped_lines(cleaned)
            last_title == LastRemainder(lines, TITLE_PREFIX)
            title == IF last_title = <<>> THEN UNTITLED ELSE last_title
        IN  lines # <<>> =>
                parsed.result =
                    result_triple(
                        fallback_title(title, lines),
                        build_short_desc(LastRemainder(lines, INGREDIENTS_PREFIX)),
                        build_instructions(LastRemainder(lines, DIRECTIONS_PREFIX), cleaned))

\* two directions lines: the steps of the second one are used
C9_Witness ==
    /\ ParseDone
    /\ raw_text = <<"d","i","r","e","c","t","i","o","n","s",":"," ","b","o","i","l"," ","-","-"," ","s","e","r","v","e">> \o NEWLINE \o <<"D","i","r","e","c","t","i","o","n","s",":"," ","m","i","x">>
    /\ parsed.result[3] = <<"1","."," ","M","i","x">>

\* no token occurs inside another, and no end of one is the start of another
NonOverlapping(tokens) ==
    \A a, b \in tokens :
        /\ a # b => ~Contains(b, a)
        /\ \A n \in 1..(Len(a) - 1) :
               n < Len(b) => SubSeq(a, Len(a) - n + 1, Len(a)) # SubSeq(b, 1, n)

CleanDone == parsed.op = "clean"

\* C10: the special tokens being pairwise non-overlapping, removing them in any
\* iteration order of the set gives the same cleaned text.
C10_OrderIndependent ==
    (CleanDone /\ NonOverlapping(SPECIAL_TOKENS)) =>
        \A order \in TokenOrders : clean_in_order(raw_text, order) = parsed.result

(***************************************************************************)
(* Properties of generate_recipes (checked under Spec)                     *)
(***************************************************************************)
Answered == pc = "done"

\* an entry that is empty or holds only whitespace
IsBlank(ing) == \A k \in 1..Len(ing) : ing[k] \in Whitespace

\* C2: no two recipes of the returned list have titles that are equal when
\* compared case-insensitively.
C2_NoDuplicateTitles ==
    \A i, j \in 1..Len(response.recipes) :
        i # j => lower(response.recipes[i].title) # lower(response.recipes[j].title)

\* the generator returned "title: Soup ..." and then "title: soup ...": one recipe
C2_Witness ==
    /\ Answered
    /\ response.status = 200
    /\ generated.raw_outputs = <<strip(RAW_SOUP), strip(RAW_SOUP_LOWER)>>
    /\ Len(response.recipes) = 1
    /\ response.recipes[1].title = SOUP

\* positions of the raw outputs whose case-insensitive title was not seen before
FirstSeen(keys) == {k \in 1..Len(keys) : \A j \in 1..(k - 1) : keys[j] # keys[k]}

\* the position in `keys' of the i-th title seen for the first time
NthFirstSeen(keys, i) ==
    CHOOSE k \in FirstSeen(keys) : Cardinality({j \in FirstSeen(keys) : j <= k}) = i

\* C3: the returned list holds the first occurrence of each distinct
\* case-insensitive title, in first-seen order, cut after the third: never more
\* than 3 recipes, and the raw outputs after the third unique one are not read.
C3_FirstThreeUnique ==
    (Answered /\ response.status = 200) =>
        LET raws == generated.raw_outputs
            triples == [k \in 1..Len(raws) |-> parse_recipe_output(raws[k])]
            keys == [k \in 1..Len(raws) |-> lower(triples[k][1])]
            count == Cardinality(FirstSeen(keys))
            kept == IF count > 3 THEN 3 ELSE count
        IN  /\ Len(response.recipes) = kept
            /\ Len(response.recipes) <= 3
            /\ \A i \in 1..kept :
                   LET from == triples[NthFirstSeen(keys, i)]
                   IN  /\ response.recipes[i].title = from[1]
                       /\ response.recipes[i].shortDescription = from[2]
                       /\ response.recipes[i].instructions = from[3]
            /\ idx = IF count >= 3 THEN NthFirstSeen(keys, 3) ELSE Len(raws)

\* four raw outputs with four different titles: three recipes, the fourth unread
C3_Witness ==
    /\ Answered
    /\ response.status = 200
    /\ Len(generated.raw_outputs) = 4
    /\ \A i, j \in 1..4 : i # j =>
           lower(parse_recipe_output(generated.raw_outputs[i])[1])
               # lower(parse_recipe_output(generated.raw_outputs[j])[1])
    /\ Len(response.recipes) = 3
    /\ idx = 3

\* C4: an empty ingredient list, or one whose entries are all empty or
\* whitespace, is answered with status 400 (not turned into a 500) and the
\* generator is not called for it.
C4_EmptyInputRejected ==
    (pc # "idle" /\ \A k \in 1..Len(ingredients) : IsBlank(ingredients[k])) =>
        /\ Answered
        /\ response.status = 400
        /\ response.detail \in {NO_INGREDIENTS, NO_VALID_INGREDIENTS}
        /\ prompt = <<>>
        /\ generated = NotGenerated

\* a list of three blank entries was rejected
C4_Witness ==
    /\ Answered
    /\ Len(ingredients) = 3
    /\ \A k \in 1..Len(ingredients) : IsBlank(ingredients[k])
    /\ response.status = 400
    /\ response.detail = NO_VALID_INGREDIENTS
    /\ prompt = <<>>

\* C5: a failure of the generator call, or while parsing and collecting its
\* outputs, is answered with status 500 and the fixed message: the answer
\* carries neither the exception's text nor a partial recipe list.
C5_FailureIsGeneric500 ==
    /\ generated.error # "" =>
           /\ Answered
           /\ response.status = 500
           /\ response.detail = "Recipe generation failed. Please try again later."
           /\ response.detail # generated.error
           /\ response.recipes = <<>>
    /\ (Answered /\ generated.error = "") => response.status \in {200, 400}

\* the failure came after two recipes had been collected
C5_Witness ==
    /\ Answered
    /\ generated.error # ""
    /\ Len(recipes_dict) = 2
    /\ response.status = 500
    /\ response.recipes = <<>>

RECURSIVE CommaList(_)
\* the texts of a list written one after another with ", " between them
CommaList(parts) ==
    IF parts = <<>> THEN <<>>
    ELSE IF Len(parts) = 1 THEN parts[1]
    ELSE parts[1] \o <<",", " ">> \o CommaList(Tail(parts))

\* C8: the entries are trimmed, lower-cased, the blank ones dropped, the order
\* kept, and the prompt is "items: " followed by them joined with ", ":
\* ["Tomato", "  ", "cheese"] gives "items: tomato, cheese".
C8_PromptFromNormalized ==
    (pc # "idle" /\ \E k \in 1..Len(ingredients) : ~IsBlank(ingredients[k])) =>
        LET kept == SelectSeq(ingredients, LAMBDA ing : ~IsBlank(ing))
            normal == [k \in 1..Len(kept) |-> lower(strip(kept[k]))]
        IN  /\ prompt = << <<"i","t","e","m","s",":"," ">> \o CommaList(normal) >>
            /\ ingredients = <<TOMATO, BLANK, CHEESE>> => prompt = << <<"i","t","e","m","s",":"," ","t","o","m","a","t","o",","," ","c","h","e","e","s","e">> >>

\* the request ["Tomato", "  ", "cheese"] reached the generator
C8_Witness ==
    /\ pc = "awaiting"
    /\ ingredients = <<TOMATO, BLANK, CHEESE>>
    /\ prompt = << <<"i","t","e","m","s",":"," ","t","o","m","a","t","o",","," ","c","h","e","e","s","e">> >>

====
